---- MODULE Spec2Model ----
(***************************************************************************)
(* Model of the watermark engine of GeminiWatermarkTool                    *)
(* (src/src/core/watermark_engine.cpp).                                    *)
(*                                                                         *)
(* Numbers.  Pixels are 8-bit values 0..255.  An opacity (alpha) value is  *)
(* kept as its numerator over 255, as calculate_alpha_map produces it     *)
(* (alpha = value / 255).  Detection scores are fixed-point: a stage       *)
(* score is in 1/100 (-100..100 is -1.0..1.0) and a confidence in 1/1000,  *)
(* so that 0.50*s + 0.30*g + 0.20*v is the exact integer 5*s + 3*g + 2*v.  *)
(*                                                                         *)
(* Images.  An image keeps its real dimensions; its pixel grid is sampled  *)
(* at the probe pixels of ProbeDs, each named by its distance (dx, dy)     *)
(* from the bottom-right corner (x = cols - dx, y = rows - dy).  One       *)
(* colour channel stands for the three, which the compositor treats       *)
(* alike.                                                                  *)
(*                                                                         *)
(* Library calls.  The results of cv::matchTemplate and cv::meanStdDev are *)
(* inputs of DetectWatermark, drawn from their ranges.                     *)
(*                                                                         *)
(* Around the engine.  process_image (the batch/CLI path), the single-     *)
(* image operations of gui::AppController (src/src/gui/app) and the i18n   *)
(* string tables (src/src/i18n/i18n.cpp) are modelled in sections of       *)
(* their own, each with its own specification.                             *)
(***************************************************************************)
EXTENDS Integers, Sequences, FiniteSets, TLC

VARIABLES
    alpha_map_small_,   \* WatermarkEngine::alpha_map_small_
    alpha_map_large_,   \* WatermarkEngine::alpha_map_large_
    logo_value_,        \* WatermarkEngine::logo_value_
    image,              \* the caller's image buffer (cv::Mat&)
    history,            \* the mutating calls made on this buffer, oldest first
    ret,                \* the outcome of the last call
    m_state,            \* AppController::m_state (gui::AppState)
    i18n_state          \* i18n: the static I18nState behind state()

vars == <<alpha_map_small_, alpha_map_large_, logo_value_, image, history, ret,
          m_state, i18n_state>>

----------------------------------------------------------------------------
\* Bounds of the model

\* mutating calls explored on one loaded image
MaxCalls == 2

\* reference captures the engine may have been built from (seeds 0..NumCaptures-1)
NumCaptures == 2

----------------------------------------------------------------------------
\* Program constants

kSizeLimit == 1024
kSmallMargin == 32
kSmallLogo == 48
kLargeMargin == 64
kLargeLogo == 96
kMaxPixel == 255

\* 0.25 in 1/100
kSpatialThreshold == 25
\* 0.35 in 1/1000
kDetectionThreshold == 350
\* ref_h > 8
kMinRefHeight == 8
\* s_ref[0] > 5.0
kMinRefStd == 5

\* one stage-score unit is 1/ScoreOne; one confidence unit is 1/ConfOne
ScoreOne == 100
ConfOne == 1000

----------------------------------------------------------------------------
\* Helpers

Max(a, b) == IF a >= b THEN a ELSE b
Min(a, b) == IF a <= b THEN a ELSE b
Abs(a) == IF a >= 0 THEN a ELSE -a

\* std::clamp(v, lo, hi)
Clamp(v, lo, hi) == IF v < lo THEN lo ELSE IF v > hi THEN hi ELSE v

\* n / d rounded to the nearest integer, d > 0
RoundDiv(n, d) == (2 * n + d) \div (2 * d)

\* cv::saturate_cast<uchar>
Saturate(v) == Clamp(v, 0, kMaxPixel)

----------------------------------------------------------------------------
\* Inputs

Sizes == {"Small", "Large"}
\* std::optional<WatermarkSize>: "None" is std::nullopt
ForceSizes == {"None", "Small", "Large"}

\* (cols, rows, channels) of the image buffers a caller supplies; the first
\* is the empty buffer
Images == {<<0, 0, 1>>, <<30, 30, 3>>, <<32, 32, 3>>, <<60, 60, 1>>, <<100, 100, 4>>,
           <<900, 900, 3>>, <<1024, 1024, 3>>, <<1025, 1024, 3>>,
           <<1024, 1025, 4>>, <<1025, 1025, 1>>, <<2000, 2000, 3>>,
           <<2000, 100, 3>>}

\* probe pixels, as distances (dx, dy) from the bottom-right corner
ProbeDs == {<<1, 1>>, <<33, 33>>, <<65, 65>>, <<80, 80>>, <<81, 81>>,
            <<160, 160>>, <<161, 161>>, <<40, 1>>, <<100, 70>>}

Probes(cols, rows) == {d \in ProbeDs : d[1] <= cols /\ d[2] <= rows}

\* the pixel value a freshly loaded image has at probe d
PixelPattern(d) == (d[1] * 7 + d[2] * 13) % (kMaxPixel + 1)

LoadedImage(cols, rows, ch) ==
    [cols |-> cols, rows |-> rows, channels |-> ch,
     data |-> [d \in Probes(cols, rows) |-> PixelPattern(d)]]

\* cv::Mat::empty()
IsEmpty(img) == img.cols = 0 \/ img.rows = 0

----------------------------------------------------------------------------
\* PlacementRules

get_watermark_size_inclusive(image_width, image_height) ==
    IF image_width >= kSizeLimit /\ image_height >= kSizeLimit
    THEN "Large" ELSE "Small"

get_watermark_size(image_width, image_height) ==
    IF image_width > kSizeLimit /\ image_height > kSizeLimit
    THEN "Large" ELSE "Small"

SmallPosition ==
    [margin_right |-> kSmallMargin, margin_bottom |-> kSmallMargin,
     logo_size |-> kSmallLogo]

LargePosition ==
    [margin_right |-> kLargeMargin, margin_bottom |-> kLargeMargin,
     logo_size |-> kLargeLogo]

get_watermark_config(image_width, image_height) ==
    IF image_width > kSizeLimit /\ image_height > kSizeLimit
    THEN LargePosition ELSE SmallPosition

\* WatermarkPosition::get_position
get_position(config, image_width, image_height) ==
    [x |-> image_width - config.margin_right - config.logo_size,
     y |-> image_height - config.margin_bottom - config.logo_size]

\* a size class kept from the previous call instead of resolved per call
ResolveSizeSticky(force_size, cols, rows) ==
    IF force_size # "None" THEN force_size
    ELSE IF Len(history) > 0 /\ history[Len(history)].size \in Sizes
    THEN history[Len(history)].size
    ELSE get_watermark_size(cols, rows)

\* force_size.value_or(get_watermark_size(cols, rows))
ResolveSize(force_size, cols, rows) ==
    IF force_size = "None" THEN get_watermark_size(cols, rows) ELSE force_size

----------------------------------------------------------------------------
\* AlphaMapBuilder: the opacity maps

\* the reference capture's value (0..255) at pixel (i, j); the captures are
\* image assets, drawn here from a family of patterns indexed by seed
CapturePixel(src, seed, i, j) ==
    IF src = "small"
    THEN (i * 5 + j * 2 + seed * kMaxPixel) % (kMaxPixel + 1)
    ELSE (i * 5 + j * 2 + 7 + seed * (kMaxPixel - 7)) % (kMaxPixel + 1)

\* calculate_alpha_map: alpha = bg_value / 255, kept as the numerator
\* of the capture (src, seed), a cols x rows grid; src_cols x src_rows is the
\* grid CapturePixel is read on, which a resized map keeps
calculate_alpha_map(src, seed, cols, rows) ==
    [cols |-> cols, rows |-> rows, src |-> src, seed |-> seed, method |-> "none",
     src_cols |-> cols, src_rows |-> rows]

\* the map's alpha numerator at (i, j); a resized map (cv::resize) is read
\* at the source pixel its (i, j) falls on
AlphaAt(map, i, j) ==
    LET base == IF map.src = "small" THEN kSmallLogo ELSE kLargeLogo
        ci == IF map.method \in {"none", "clone"} THEN i
              ELSE (i * base) \div map.cols
        cj == IF map.method \in {"none", "clone"} THEN j
              ELSE (j * base) \div map.rows
    IN  CapturePixel(map.src, map.seed,
                     (ci * map.src_cols) \div base,
                     (cj * map.src_rows) \div base)

get_alpha_map(size) ==
    IF size = "Small" THEN alpha_map_small_ ELSE alpha_map_large_

\* bilinear only where both target dimensions exceed the source
create_interpolated_alpha_both_larger(target_width, target_height) ==
    LET source == alpha_map_large_ IN
    IF target_width = source.cols /\ target_height = source.rows
    THEN [source EXCEPT !.method = "clone"]
    ELSE [source EXCEPT
            !.cols = target_width, !.rows = target_height,
            !.method = IF target_width > source.cols /\ target_height > source.rows
                       THEN "linear" ELSE "area"]

create_interpolated_alpha(target_width, target_height) ==
    LET source == alpha_map_large_ IN
    IF target_width = source.cols /\ target_height = source.rows
    THEN [source EXCEPT !.method = "clone"]
    ELSE [source EXCEPT
            !.cols = target_width, !.rows = target_height,
            !.method = IF target_width > source.cols \/ target_height > source.rows
                       THEN "linear" ELSE "area"]

\* cv::resize(source, interpolated, ...) written into the source itself
LargeMapResizedInPlace(target_width, target_height) ==
    IF target_width = alpha_map_large_.cols /\ target_height = alpha_map_large_.rows
    THEN alpha_map_large_
    ELSE create_interpolated_alpha(target_width, target_height)

\* alpha_map_large_ once create_interpolated_alpha has returned: the resize
\* reads it through a const reference and writes a new cv::Mat
LargeMapAfterInterpolation(target_width, target_height) == alpha_map_large_

----------------------------------------------------------------------------
\* AlphaCompositor (core/blend_modes)

\* the map's extent at pos, intersected with the image bounds
BlendROI(img, map, pos) ==
    [x1 |-> Max(0, pos.x), y1 |-> Max(0, pos.y),
     x2 |-> Min(img.cols, pos.x + map.cols),
     y2 |-> Min(img.rows, pos.y + map.rows)]

InROI(roi, x, y) == roi.x1 <= x /\ x < roi.x2 /\ roi.y1 <= y /\ y < roi.y2

\* output = original*(1 - alpha) + foreground*alpha
AddPixel(original, a, v) ==
    Saturate(RoundDiv(original * (kMaxPixel - a) + v * a, kMaxPixel))

\* original = (watermarked - foreground*alpha) / (1 - alpha); at alpha = 1
\* the division is by zero and the stored value is the outcome u
RemovePixel(watermarked, a, v, u) ==
    IF a = kMaxPixel THEN u
    ELSE Saturate(RoundDiv(watermarked * kMaxPixel - v * a, kMaxPixel - a))

add_watermark_alpha_blend(img, map, pos, v) ==
    LET roi == BlendROI(img, map, pos) IN
    [img EXCEPT !.data =
        [d \in DOMAIN img.data |->
            LET x == img.cols - d[1]
                y == img.rows - d[2]
            IN  IF InROI(roi, x, y)
                THEN AddPixel(img.data[d], AlphaAt(map, x - pos.x, y - pos.y), v)
                ELSE img.data[d]]]

remove_watermark_alpha_blend(img, map, pos, v, u) ==
    LET roi == BlendROI(img, map, pos) IN
    [img EXCEPT !.data =
        [d \in DOMAIN img.data |->
            LET x == img.cols - d[1]
                y == img.rows - d[2]
            IN  IF InROI(roi, x, y)
                THEN RemovePixel(img.data[d], AlphaAt(map, x - pos.x, y - pos.y), v, u)
                ELSE img.data[d]]]

\* what a division by zero may leave in a pixel after saturation
UndefinedPixels == {0, kMaxPixel}

----------------------------------------------------------------------------
\* WatermarkEngine: remove / add

\* cv::cvtColor(BGRA2BGR / GRAY2BGR): the colour value is kept
EnsureBGR(img) == [img EXCEPT !.channels = 3]

NoPos == [x |-> 0, y |-> 0]

NoMap ==
    [cols |-> 0, rows |-> 0, src |-> "none", seed |-> 0, method |-> "none",
     src_cols |-> 0, src_rows |-> 0]

\* the outcome of a mutating call: the image it leaves, whether it threw,
\* and the size class, position and map it used
ThrewEmpty(img) ==
    [threw |-> TRUE, image |-> img, size |-> "n/a", pos |-> NoPos,
     map |-> NoMap]

RemoveWatermarkConfigSmall(size) == SmallPosition

AddWatermarkConfigLarge(size) == LargePosition

AddWatermarkConfigSwapped(size) ==
    IF size = "Small" THEN LargePosition ELSE SmallPosition

RemoveWatermarkConfig(size) ==
    IF size = "Small" THEN SmallPosition ELSE LargePosition

AddWatermarkConfig(size) ==
    IF size = "Small" THEN SmallPosition ELSE LargePosition

RemoveStandard(img, force_size, u) ==
    LET bgr == EnsureBGR(img)
        size == ResolveSize(force_size, bgr.cols, bgr.rows)
        config == RemoveWatermarkConfig(size)
        pos == get_position(config, bgr.cols, bgr.rows)
        alpha_map == get_alpha_map(size)
    IN  [threw |-> FALSE,
         image |-> remove_watermark_alpha_blend(bgr, alpha_map, pos, logo_value_, u),
         size |-> size, pos |-> pos, map |-> alpha_map]

remove_watermark(img, force_size, u) ==
    IF IsEmpty(img) THEN ThrewEmpty(img) ELSE RemoveStandard(img, force_size, u)

AddStandard(img, force_size) ==
    LET bgr == EnsureBGR(img)
        size == ResolveSize(force_size, bgr.cols, bgr.rows)
        config == AddWatermarkConfig(size)
        pos == get_position(config, bgr.cols, bgr.rows)
        alpha_map == get_alpha_map(size)
    IN  [threw |-> FALSE,
         image |-> add_watermark_alpha_blend(bgr, alpha_map, pos, logo_value_),
         size |-> size, pos |-> pos, map |-> alpha_map]

add_watermark(img, force_size) ==
    IF IsEmpty(img) THEN ThrewEmpty(img) ELSE AddStandard(img, force_size)

\* the map a custom region is composited with
CustomAlphaEitherSide(region) ==
    IF region.width = kSmallLogo \/ region.height = kSmallLogo
    THEN alpha_map_small_
    ELSE IF region.width = kLargeLogo \/ region.height = kLargeLogo
    THEN alpha_map_large_
    ELSE create_interpolated_alpha(region.width, region.height)

CustomAlpha(region) ==
    IF region.width = kSmallLogo /\ region.height = kSmallLogo
    THEN alpha_map_small_
    ELSE IF region.width = kLargeLogo /\ region.height = kLargeLogo
    THEN alpha_map_large_
    ELSE create_interpolated_alpha(region.width, region.height)

RemoveCustom(img, region, u) ==
    LET bgr == EnsureBGR(img)
        pos == [x |-> region.x, y |-> region.y]
        alpha_map == CustomAlpha(region)
    IN  [threw |-> FALSE,
         image |-> remove_watermark_alpha_blend(bgr, alpha_map, pos, logo_value_, u),
         size |-> "n/a", pos |-> pos, map |-> alpha_map]

remove_watermark_custom_unchecked(img, region, u) == RemoveCustom(img, region, u)

remove_watermark_custom(img, region, u) ==
    IF IsEmpty(img) THEN ThrewEmpty(img) ELSE RemoveCustom(img, region, u)

AddCustom(img, region) ==
    LET bgr == EnsureBGR(img)
        pos == [x |-> region.x, y |-> region.y]
        alpha_map == CustomAlpha(region)
    IN  [threw |-> FALSE,
         image |-> add_watermark_alpha_blend(bgr, alpha_map, pos, logo_value_),
         size |-> "n/a", pos |-> pos, map |-> alpha_map]

add_watermark_custom(img, region) ==
    IF IsEmpty(img) THEN ThrewEmpty(img) ELSE AddCustom(img, region)

----------------------------------------------------------------------------
\* WatermarkDetector

\* fusion weights 0.50, 0.30, 0.20: confidence units (1/1000) per score unit (1/100)
kWeightSpatial == 5
kWeightGradient == 3
kWeightVariance == 2

NoRegion == [x |-> 0, y |-> 0, width |-> 0, height |-> 0]

\* DetectionResult result{} with the five fields set to false / 0.0f; size and
\* region are value-initialised.  stages lists the stages that were evaluated.
InitialResult ==
    [kind |-> "detection", detected |-> FALSE, confidence |-> 0,
     spatial_score |-> 0, gradient_score |-> 0, variance_score |-> 0,
     size |-> "Default", region |-> NoRegion, stages |-> {},
     roi |-> NoRegion, ref_roi |-> NoRegion]

DetectOnEmptyThrows(result) == [result EXCEPT !.kind = "threw"]

\* if (image.empty()) return result;
DetectOnEmpty(result) == result

\* the placement detect_watermark positions the region with
DetectConfig(size, cols, rows) == get_watermark_config(cols, rows)

ROIOutOfBoundsStrict(roi) == roi.x1 > roi.x2 \/ roi.y1 > roi.y2

\* if (x1 >= x2 || y1 >= y2)
ROIOutOfBounds(roi) == roi.x1 >= roi.x2 \/ roi.y1 >= roi.y2

CircuitBreakerAtZero(spatial_score) == spatial_score < 0

\* if (spatial_score < kSpatialThreshold)
CircuitBreaker(spatial_score) == spatial_score < kSpatialThreshold

\* static_cast<float>(spatial_score * 0.5)
BreakerConfidence(spatial_score) == kWeightSpatial * spatial_score

\* Stage 3: the strip above the clamped region that serves as reference
\* (cv::Rect ref_roi); no strip is taken unless ref_h > 8
RefStrip(roi, config) ==
    LET ref_h == Min(roi.y1, config.logo_size) IN
    IF ref_h > kMinRefHeight
    THEN [x |-> roi.x1, y |-> roi.y1 - ref_h, width |-> roi.x2 - roi.x1, height |-> ref_h]
    ELSE NoRegion

\* Stage 3: the std-devs s_wm and s_ref come from cv::meanStdDev
VarianceScore(y1, config, s_wm, s_ref) ==
    LET ref_h == Min(y1, config.logo_size) IN
    IF ref_h > kMinRefHeight /\ s_ref > kMinRefStd
    THEN Clamp(ScoreOne - (s_wm * ScoreOne) \div s_ref, 0, ScoreOne)
    ELSE 0

\* std::clamp(0.50*spatial + 0.30*grad + 0.20*var, 0.0, 1.0)
FuseConfidence(spatial_score, grad_score, var_score) ==
    Clamp(kWeightSpatial * spatial_score + kWeightGradient * grad_score
            + kWeightVariance * var_score, 0, ConfOne)

IsDetectedStrict(confidence) == confidence > kDetectionThreshold

\* result.confidence >= kDetectionThreshold
IsDetected(confidence) == confidence >= kDetectionThreshold

\* in: the library results of this call, [spatial, grad, s_wm, s_ref]
detect_watermark(img, force_size, in) ==
    IF IsEmpty(img) THEN DetectOnEmpty(InitialResult)
    ELSE
      LET size == ResolveSize(force_size, img.cols, img.rows)
          config == DetectConfig(size, img.cols, img.rows)
          pos == get_position(config, img.cols, img.rows)
          alpha_map == get_alpha_map(size)
          located == [InitialResult EXCEPT
                        !.size = size,
                        !.region = [x |-> pos.x, y |-> pos.y,
                                    width |-> alpha_map.cols,
                                    height |-> alpha_map.rows]]
          roi == BlendROI(img, alpha_map, pos)
      IN
      IF ROIOutOfBounds(roi) THEN located
      ELSE IF CircuitBreaker(in.spatial)
      THEN [located EXCEPT !.spatial_score = in.spatial,
                           !.confidence = BreakerConfidence(in.spatial),
                           !.stages = {1}]
      ELSE
        LET var_score == VarianceScore(roi.y1, config, in.s_wm, in.s_ref)
            confidence == FuseConfidence(in.spatial, in.grad, var_score)
        IN  [located EXCEPT !.spatial_score = in.spatial,
                            !.gradient_score = in.grad,
                            !.variance_score = var_score,
                            !.confidence = confidence,
                            !.detected = IsDetected(confidence),
                            !.stages = {1, 2, 3},
                            !.roi = [x |-> roi.x1, y |-> roi.y1,
                                     width |-> roi.x2 - roi.x1,
                                     height |-> roi.y2 - roi.y1],
                            !.ref_roi = RefStrip(roi, config)]

----------------------------------------------------------------------------
\* State outside the engine, as it is when the program starts

\* an empty cv::Mat
EmptyMat == LoadedImage(0, 0, 1)

\* batch_theme::kDefaultThreshold (0.25, in 1/1000)
kDefaultThreshold == 250

\* gui::BatchState as default-constructed.  A queued file carries, besides
\* its status and confidence, two counts kept for the properties: how often
\* process_image ran on it and how often its output was written since the
\* run was started.
InitialBatch ==
    [files |-> <<>>, current_index |-> 0, success_count |-> 0, skip_count |-> 0,
     fail_count |-> 0, in_progress |-> FALSE, cancel_requested |-> FALSE,
     show_confirm_dialog |-> FALSE,
     use_detection |-> TRUE, detection_threshold |-> kDefaultThreshold]

\* gui::AppState as default-constructed: ProcessState::Idle, no image,
\* remove mode, WatermarkSizeMode::Auto, no custom region
InitialAppState ==
    [state |-> "Idle", original |-> EmptyMat, processed |-> EmptyMat,
     display |-> EmptyMat, show_processed |-> FALSE, remove_mode |-> TRUE,
     size_mode |-> "Auto", force_size |-> "None",
     has_region |-> FALSE, region |-> NoRegion, detection_attempted |-> FALSE,
     batch |-> InitialBatch]

\* an unordered_map<string, string> with no entry
NoStrings == [k \in {} |-> ""]

\* I18nState as default-constructed; loaded_from records the directory the
\* English fallback was last loaded from
InitialI18nState ==
    [initialized |-> FALSE, current |-> "English", lang_dir |-> "",
     strings |-> NoStrings, fallback |-> NoStrings, last_lookup_result |-> "",
     loaded_from |-> ""]

----------------------------------------------------------------------------
\* The calls a caller makes on a ready engine

\* results of cv::matchTemplate (TM_CCOEFF_NORMED, in 1/100)
SpatialScores == {-100, 0, 24, 25, 70, 100}
GradientScores == {-100, -1, 0, 100}
\* results of cv::meanStdDev: (s_wm, s_ref) on the 0..255 scale
StdDevs == {<<0, 12>>, <<6, 12>>, <<6, 5>>}

DetectInputs ==
    {[spatial |-> s, grad |-> g, s_wm |-> sd[1], s_ref |-> sd[2]] :
        s \in SpatialScores, g \in GradientScores, sd \in StdDevs}

\* the custom rectangles a caller draws on an image
CustomRegions(img) ==
    {[x |-> img.cols - 80, y |-> img.rows - 80, width |-> 48, height |-> 48],
     [x |-> img.cols - 160, y |-> img.rows - 160, width |-> 96, height |-> 96],
     [x |-> img.cols - 100, y |-> img.rows - 90, width |-> 60, height |-> 40],
     [x |-> img.cols - 80, y |-> img.rows - 160, width |-> 48, height |-> 96],
     [x |-> img.cols - 170, y |-> img.rows - 90, width |-> 120, height |-> 50]}

Void(op_name, threw) == [kind |-> IF threw THEN "threw" ELSE "void", op |-> op_name]

\* one mutating call, recorded with its arguments and the buffer it was given
Mutate(op_name, force_size, region, out) ==
    /\ image' = out.image
    /\ history' = Append(history,
                    [op |-> op_name, force_size |-> force_size, region |-> region,
                     before |-> image, threw |-> out.threw, size |-> out.size,
                     pos |-> out.pos, map |-> out.map])
    /\ ret' = Void(op_name, out.threw)
    /\ alpha_map_large_' =
          IF out.map.method \in {"linear", "area"}
          THEN LargeMapAfterInterpolation(out.map.cols, out.map.rows)
          ELSE alpha_map_large_
    /\ UNCHANGED <<alpha_map_small_, logo_value_, m_state, i18n_state>>

RemoveWatermark ==
    /\ Len(history) < MaxCalls
    /\ \E force_size \in ForceSizes, u \in UndefinedPixels :
           Mutate("remove", force_size, NoRegion,
                  remove_watermark(image, force_size, u))

AddWatermark ==
    /\ Len(history) < MaxCalls
    /\ \E force_size \in ForceSizes :
           Mutate("add", force_size, NoRegion, add_watermark(image, force_size))

RemoveWatermarkCustom ==
    /\ Len(history) < MaxCalls
    /\ \E region \in CustomRegions(image), u \in UndefinedPixels :
           Mutate("remove_custom", "None", region,
                  remove_watermark_custom(image, region, u))

AddWatermarkCustom ==
    /\ Len(history) < MaxCalls
    /\ \E region \in CustomRegions(image) :
           Mutate("add_custom", "None", region,
                  add_watermark_custom(image, region))

DetectWatermark ==
    /\ \E force_size \in ForceSizes, in \in DetectInputs :
           ret' = detect_watermark(image, force_size, in)
                  @@ [op |-> "detect", force_size |-> force_size, in |-> in]
    /\ UNCHANGED <<alpha_map_small_, alpha_map_large_, logo_value_, image, history,
                   m_state, i18n_state>>

\* sizes a caller asks create_interpolated_alpha for
ResampleTargets == {<<96, 96>>, <<48, 48>>, <<200, 200>>, <<120, 50>>,
                    <<50, 120>>, <<96, 50>>, <<96, 120>>}

\* a call of create_interpolated_alpha, recorded like the mutating calls
ResampleCall ==
    /\ Len(history) < MaxCalls
    /\ \E t \in ResampleTargets :
          LET map == create_interpolated_alpha(t[1], t[2]) IN
          /\ ret' = [kind |-> "map", op |-> "resample", map |-> map,
                     target_width |-> t[1], target_height |-> t[2]]
          /\ history' = Append(history,
                    [op |-> "resample", force_size |-> "None",
                     region |-> [x |-> 0, y |-> 0, width |-> t[1], height |-> t[2]],
                     before |-> image, threw |-> FALSE, size |-> "n/a",
                     pos |-> NoPos, map |-> map])
          /\ alpha_map_large_' = LargeMapAfterInterpolation(t[1], t[2])
    /\ UNCHANGED <<alpha_map_small_, logo_value_, image, m_state, i18n_state>>

\* library results for the detect calls made between other calls
DetectInputsFew ==
    {[spatial |-> 100, grad |-> 100, s_wm |-> 0, s_ref |-> 12],
     [spatial |-> 0, grad |-> 0, s_wm |-> 6, s_ref |-> 5]}

\* a call of detect_watermark, recorded like the mutating calls
DetectCall ==
    /\ Len(history) < MaxCalls
    /\ \E force_size \in ForceSizes, in \in DetectInputsFew :
          LET result == detect_watermark(image, force_size, in) IN
          /\ ret' = result @@ [op |-> "detect", force_size |-> force_size]
          /\ history' = Append(history,
                    [op |-> "detect", force_size |-> force_size,
                     region |-> result.region, before |-> image,
                     threw |-> FALSE, size |-> result.size,
                     pos |-> NoPos, map |-> NoMap])
    /\ UNCHANGED <<alpha_map_small_, alpha_map_large_, logo_value_, image, m_state, i18n_state>>

\* the engine after construction from captures of seed s, with the default
\* logo value 255.0, and the buffer the caller holds
Init ==
    /\ \E s \in 0 .. NumCaptures - 1 :
          /\ alpha_map_small_ = calculate_alpha_map("small", s, kSmallLogo, kSmallLogo)
          /\ alpha_map_large_ = calculate_alpha_map("large", s, kLargeLogo, kLargeLogo)
    /\ logo_value_ = kMaxPixel
    /\ \E im \in Images : image = LoadedImage(im[1], im[2], im[3])
    /\ history = <<>>
    /\ ret = [kind |-> "none", op |-> "construct"]
    /\ m_state = InitialAppState
    /\ i18n_state = InitialI18nState

\* the mutating entry points
Next ==
    \/ RemoveWatermark
    \/ AddWatermark
    \/ RemoveWatermarkCustom
    \/ AddWatermarkCustom

Spec == Init /\ [][Next]_vars

\* the detector, which reads the buffer and the maps only
NextDetect == DetectWatermark

SpecDetect == Init /\ [][NextDetect]_vars

\* the buffers used where every kind of call is interleaved
CallImages == {<<0, 0, 1>>, <<100, 100, 4>>, <<900, 900, 3>>, <<2000, 2000, 3>>}

InitCalls ==
    /\ \E s \in 0 .. NumCaptures - 1 :
          /\ alpha_map_small_ = calculate_alpha_map("small", s, kSmallLogo, kSmallLogo)
          /\ alpha_map_large_ = calculate_alpha_map("large", s, kLargeLogo, kLargeLogo)
    /\ logo_value_ = kMaxPixel
    /\ \E im \in CallImages : image = LoadedImage(im[1], im[2], im[3])
    /\ history = <<>>
    /\ ret = [kind |-> "none", op |-> "construct"]
    /\ m_state = InitialAppState
    /\ i18n_state = InitialI18nState

\* any sequence of calls on a ready engine
NextCalls ==
    \/ RemoveWatermark
    \/ AddWatermark
    \/ RemoveWatermarkCustom
    \/ AddWatermarkCustom
    \/ DetectCall
    \/ ResampleCall

SpecCalls == InitCalls /\ [][NextCalls]_vars

\* the resampler alone
NextResample == ResampleCall

SpecResample == Init /\ [][NextResample]_vars

----------------------------------------------------------------------------
\* Construction

\* what cv::imread / cv::imdecode return for a reference capture: an empty
\* cv::Mat when the file or the bytes cannot be decoded
CaptureSizes == {<<48, 48>>, <<96, 96>>, <<40, 40>>, <<100, 60>>}

NoCapture == [cols |-> 0, rows |-> 0, seed |-> 0]

Captures ==
    {NoCapture} \cup
    {[cols |-> c[1], rows |-> c[2], seed |-> s] :
        c \in CaptureSizes, s \in 0 .. NumCaptures - 1}

\* float logo_value (constructor argument)
LogoValues == {kMaxPixel, 200}

Ctors == {"from_files", "from_bytes"}

\* the map of a capture resized to logo x logo, or of the capture as it is
AlphaMapOf(src, bg, logo) ==
    [calculate_alpha_map(src, bg.seed, logo, logo)
        EXCEPT !.src_cols = bg.cols, !.src_rows = bg.rows]

\* the maps computed from the captures as they are, without the resize
init_alpha_maps_no_resize(bg_small, bg_large) ==
    [small |-> [AlphaMapOf("small", bg_small, kSmallLogo)
                  EXCEPT !.cols = bg_small.cols, !.rows = bg_small.rows],
     large |-> [AlphaMapOf("large", bg_large, kLargeLogo)
                  EXCEPT !.cols = bg_large.cols, !.rows = bg_large.rows],
     warned_small |-> FALSE, warned_large |-> FALSE]

init_alpha_maps(bg_small, bg_large) ==
    [small |-> AlphaMapOf("small", bg_small, kSmallLogo),
     large |-> AlphaMapOf("large", bg_large, kLargeLogo),
     warned_small |-> bg_small.cols # kSmallLogo \/ bg_small.rows # kSmallLogo,
     warned_large |-> bg_large.cols # kLargeLogo \/ bg_large.rows # kLargeLogo]

\* either constructor: decode the small capture, then the large one, throw
\* std::runtime_error on the first that is empty, else build the maps
WatermarkEngine(ctor, bg_small, bg_large, logo_value) ==
    IF IsEmpty(bg_small)
    THEN /\ ret' = [kind |-> "threw", op |-> ctor, failed |-> "small",
                    bg_small |-> bg_small, bg_large |-> bg_large]
         /\ UNCHANGED <<alpha_map_small_, alpha_map_large_, logo_value_>>
    ELSE IF IsEmpty(bg_large)
    THEN /\ ret' = [kind |-> "threw", op |-> ctor, failed |-> "large",
                    bg_small |-> bg_small, bg_large |-> bg_large]
         /\ UNCHANGED <<alpha_map_small_, alpha_map_large_, logo_value_>>
    ELSE LET maps == init_alpha_maps(bg_small, bg_large) IN
         /\ alpha_map_small_' = maps.small
         /\ alpha_map_large_' = maps.large
         /\ logo_value_' = logo_value
         /\ ret' = [kind |-> "void", op |-> ctor, failed |-> "none",
                    bg_small |-> bg_small, bg_large |-> bg_large,
                    warned_small |-> maps.warned_small,
                    warned_large |-> maps.warned_large]

ConstructFromFiles ==
    /\ ret.op = "none"
    /\ \E bg_small \in Captures, bg_large \in Captures, logo_value \in LogoValues :
          WatermarkEngine("from_files", bg_small, bg_large, logo_value)
    /\ UNCHANGED <<image, history, m_state, i18n_state>>

ConstructFromBytes ==
    /\ ret.op = "none"
    /\ \E bg_small \in Captures, bg_large \in Captures, logo_value \in LogoValues :
          WatermarkEngine("from_bytes", bg_small, bg_large, logo_value)
    /\ UNCHANGED <<image, history, m_state, i18n_state>>

\* before any engine is constructed
InitConstruct ==
    /\ alpha_map_small_ = NoMap
    /\ alpha_map_large_ = NoMap
    /\ logo_value_ = 0
    /\ image = LoadedImage(0, 0, 1)
    /\ history = <<>>
    /\ ret = [kind |-> "none", op |-> "none"]
    /\ m_state = InitialAppState
    /\ i18n_state = InitialI18nState

NextConstruct == ConstructFromFiles \/ ConstructFromBytes

SpecConstruct == InitConstruct /\ [][NextConstruct]_vars

----------------------------------------------------------------------------
\* process_image: load, detect, skip or process, write

\* float detection_threshold, in 1/1000 (CLI::Range(0.0f, 1.0f))
Thresholds == {0, 250, 350, 500, ConfOne}

\* what creating the output directory and gwt::imwrite_utf8 can do
WriteOutcomes == {"ok", "fail", "throws"}

\* the zero-initialised ProcessResult
InitialProcessResult ==
    [kind |-> "process", op |-> "process_image", success |-> FALSE,
     skipped |-> FALSE, confidence |-> 0, message |-> "",
     detected |-> FALSE, detection_ran |-> FALSE, processed |-> FALSE, wrote |-> FALSE]

\* detection run in add mode too
DetectionAppliesInAnyMode(use_detection, remove) == use_detection

\* "Watermark detection (only for removal mode)"
DetectionApplies(use_detection, remove) == use_detection /\ remove

\* the skip test of process_image
Skips(detection, detection_threshold) ==
    ~detection.detected /\ detection.confidence < detection_threshold

\* the tail of process_image from "Process image" on
ProcessAndWrite(result, img, remove, force_size, u, write) ==
    LET out == IF remove THEN remove_watermark(img, force_size, u)
               ELSE add_watermark(img, force_size)
        done == [result EXCEPT !.processed = TRUE]
    IN  IF out.threw \/ write = "throws"
        THEN [done EXCEPT !.message = "Error: "]
        ELSE IF write = "fail"
        THEN [done EXCEPT !.message = "Failed to write image"]
        ELSE [done EXCEPT !.success = TRUE, !.wrote = TRUE,
                          !.message = IF remove THEN "Watermark removed"
                                      ELSE "Watermark added"]

\* img: what gwt::imread_utf8 returned (empty on failure)
process_image(img, remove, force_size, use_detection, detection_threshold, in, u, write) ==
    IF IsEmpty(img)
    THEN [InitialProcessResult EXCEPT !.message = "Failed to load image"]
    ELSE IF DetectionApplies(use_detection, remove)
    THEN LET detection == detect_watermark(img, force_size, in)
             result == [InitialProcessResult EXCEPT
                          !.confidence = detection.confidence,
                          !.detected = detection.detected,
                          !.detection_ran = TRUE]
         IN  IF Skips(detection, detection_threshold)
             THEN [result EXCEPT !.skipped = TRUE, !.success = TRUE,
                                 !.message = "No watermark detected, skipped"]
             ELSE ProcessAndWrite(result, img, remove, force_size, u, write)
    ELSE ProcessAndWrite(InitialProcessResult, img, remove, force_size, u, write)

\* a call of process_image on the file whose decoded content is image, with
\* the arguments chosen at the start; the input file is left as it is
ProcessImage ==
    /\ ret.kind = "args"
    /\ \E in \in DetectInputs, u \in UndefinedPixels, write \in WriteOutcomes :
          ret' = process_image(image, ret.remove, ret.force_size, ret.use_detection,
                               ret.detection_threshold, in, u, write)
                 @@ [remove |-> ret.remove, force_size |-> ret.force_size,
                     use_detection |-> ret.use_detection,
                     detection_threshold |-> ret.detection_threshold]
    /\ UNCHANGED <<alpha_map_small_, alpha_map_large_, logo_value_, image, history,
                   m_state, i18n_state>>

\* a ready engine, an input file and the arguments of the call
InitProcess ==
    /\ \E s \in 0 .. NumCaptures - 1 :
          /\ alpha_map_small_ = calculate_alpha_map("small", s, kSmallLogo, kSmallLogo)
          /\ alpha_map_large_ = calculate_alpha_map("large", s, kLargeLogo, kLargeLogo)
    /\ logo_value_ = kMaxPixel
    /\ \E im \in CallImages : image = LoadedImage(im[1], im[2], im[3])
    /\ history = <<>>
    /\ \E remove \in BOOLEAN, force_size \in ForceSizes, use_detection \in BOOLEAN,
          detection_threshold \in Thresholds :
          ret = [kind |-> "args", op |-> "process_image", remove |-> remove,
                 force_size |-> force_size, use_detection |-> use_detection,
                 detection_threshold |-> detection_threshold]
    /\ m_state = InitialAppState
    /\ i18n_state = InitialI18nState

NextProcess == ProcessImage

SpecProcess == InitProcess /\ [][NextProcess]_vars

----------------------------------------------------------------------------
\* gui::AppController: the single-image operations.  m_state keeps the
\* AppState fields these operations read: the ProcessState, the three
\* images, the preview flag, the process options and the custom region.

\* what cv::imread returns for the files the user opens (empty on failure)
GuiImages == {<<0, 0, 1>>, <<100, 100, 3>>, <<2000, 2000, 3>>}

\* rectangles the user draws, or region detection reports
GuiRegions(img) ==
    {[x |-> img.cols - 80, y |-> img.rows - 80, width |-> 48, height |-> 48],
     [x |-> img.cols - 50, y |-> img.rows - 90, width |-> 60, height |-> 40]}

SizeModes == {"Auto", "Small", "Large", "Custom"}

\* the smallest side set_custom_region accepts
kMinCustomSide == 4

\* cv::Rect operator&
RectAnd(a, b) ==
    LET x1 == Max(a.x, b.x)
        y1 == Max(a.y, b.y)
        x2 == Min(a.x + a.width, b.x + b.width)
        y2 == Min(a.y + a.height, b.y + b.height)
    IN  IF x2 <= x1 \/ y2 <= y1 THEN NoRegion
        ELSE [x |-> x1, y |-> y1, width |-> x2 - x1, height |-> y2 - y1]

has_image(st) == ~IsEmpty(st.original)
has_processed(st) == ~IsEmpty(st.processed)

can_save(st) == st.state = "Completed" /\ has_processed(st)

\* a preview that shows the processed image whatever the flag says
update_display_image_processed(st) ==
    IF ~has_image(st) THEN [st EXCEPT !.display = EmptyMat]
    ELSE IF has_processed(st) THEN [st EXCEPT !.display = st.processed]
    ELSE [st EXCEPT !.display = st.original]

update_display_image(st) ==
    IF ~has_image(st) THEN [st EXCEPT !.display = EmptyMat]
    ELSE IF st.show_processed /\ has_processed(st)
    THEN [st EXCEPT !.display = st.processed]
    ELSE [st EXCEPT !.display = st.original]

\* a clear that empties the queue but keeps the counters of the last run
BatchClearFilesOnly(b) ==
    [b EXCEPT !.files = <<>>, !.in_progress = FALSE, !.cancel_requested = FALSE,
              !.show_confirm_dialog = FALSE]

\* BatchState::clear: detection_threshold and use_detection are not reset
BatchClear(b) ==
    [b EXCEPT !.files = <<>>, !.current_index = 0, !.success_count = 0,
              !.skip_count = 0, !.fail_count = 0, !.in_progress = FALSE,
              !.cancel_requested = FALSE, !.show_confirm_dialog = FALSE]

\* a reset that leaves the processed image in place
AppStateResetKeepsProcessed(st) ==
    [st EXCEPT !.state = "Idle", !.original = EmptyMat,
               !.display = EmptyMat, !.show_processed = FALSE,
               !.has_region = FALSE, !.region = NoRegion,
               !.detection_attempted = FALSE,
               !.batch = BatchClear(st.batch)]

\* AppState::reset: process_options are not reset
AppStateReset(st) ==
    [st EXCEPT !.state = "Idle", !.original = EmptyMat, !.processed = EmptyMat,
               !.display = EmptyMat, !.show_processed = FALSE,
               !.has_region = FALSE, !.region = NoRegion,
               !.detection_attempted = FALSE,
               !.batch = BatchClear(st.batch)]

CustomClear(st) ==
    [st EXCEPT !.has_region = FALSE, !.region = NoRegion,
               !.detection_attempted = FALSE]

\* found: the region detection reported, or the fallback region
detect_custom_watermark(st, found) ==
    IF ~has_image(st) THEN st
    ELSE [st EXCEPT !.detection_attempted = TRUE, !.has_region = TRUE,
                    !.region = found]

\* a load that clears the session before it validates the file
load_image_reset_first(st, img, found) ==
    IF IsEmpty(img) THEN [AppStateReset(st) EXCEPT !.state = "Error"]
    ELSE LET fresh == [AppStateReset(st) EXCEPT !.original = img]
             detected == IF fresh.size_mode = "Custom"
                         THEN detect_custom_watermark(fresh, found) ELSE fresh
         IN  [update_display_image(detected) EXCEPT !.state = "Loaded"]

\* img: what cv::imread returned (empty when the file cannot be read)
load_image(st, img, found) ==
    IF IsEmpty(img) THEN [st EXCEPT !.state = "Error"]
    ELSE LET fresh == [AppStateReset(st) EXCEPT !.original = img]
             detected == IF fresh.size_mode = "Custom"
                         THEN detect_custom_watermark(fresh, found) ELSE fresh
         IN  [update_display_image(detected) EXCEPT !.state = "Loaded"]

\* the engine call process_current makes on the clone of the original
ProcessCurrentCall(st, clone, u) ==
    LET is_custom == st.size_mode = "Custom" /\ st.has_region IN
    IF st.remove_mode
    THEN IF is_custom THEN remove_watermark_custom(clone, st.region, u)
         ELSE remove_watermark(clone, st.force_size, u)
    ELSE IF is_custom THEN add_watermark_custom(clone, st.region)
         ELSE add_watermark(clone, st.force_size)

process_current(st, u) ==
    IF ~has_image(st) THEN st
    ELSE LET clone == st.original
             out == ProcessCurrentCall(st, clone, u)
         IN  IF out.threw
             THEN [st EXCEPT !.processed = clone, !.state = "Error"]
             ELSE [update_display_image(
                      [st EXCEPT !.processed = out.image, !.show_processed = TRUE])
                   EXCEPT !.state = "Completed"]

revert_to_original(st) ==
    IF ~has_image(st) THEN st
    ELSE update_display_image([st EXCEPT !.show_processed = FALSE])

toggle_preview(st) ==
    IF ~has_image(st) THEN st
    ELSE IF has_processed(st)
    THEN update_display_image([st EXCEPT !.show_processed = ~st.show_processed])
    ELSE st

\* the image save_image hands to cv::imwrite
SavedImageProcessed(st) == st.processed

SavedImage(st) == st.display

\* written: whether cv::imwrite succeeds
save_image(st, written) ==
    IF ~can_save(st)
    THEN [kind |-> "save", op |-> "save_image", success |-> FALSE,
          attempted |-> FALSE, file |-> EmptyMat]
    ELSE [kind |-> "save", op |-> "save_image", success |-> written,
          attempted |-> TRUE,
          file |-> IF written THEN SavedImage(st) ELSE EmptyMat]

set_size_mode(st, mode, found) ==
    IF mode = "Custom"
    THEN LET custom == [st EXCEPT !.size_mode = mode, !.force_size = "None"] IN
         IF has_image(custom) /\ ~custom.detection_attempted
         THEN detect_custom_watermark(custom, found) ELSE custom
    ELSE CustomClear([st EXCEPT !.size_mode = mode,
                                !.force_size = IF mode = "Auto" THEN "None" ELSE mode])

\* a set_force_size that leaves size_mode as it was
set_force_size_only(st, size) == CustomClear([st EXCEPT !.force_size = size])

\* size: the optional WatermarkSize, "None" for std::nullopt
set_force_size(st, size) ==
    CustomClear([st EXCEPT !.force_size = size,
                           !.size_mode = IF size = "None" THEN "Auto" ELSE size])

set_custom_region(st, region) ==
    LET clamped == RectAnd(region, [x |-> 0, y |-> 0, width |-> st.original.cols,
                                    height |-> st.original.rows])
    IN  IF clamped.width < kMinCustomSide \/ clamped.height < kMinCustomSide THEN st
        ELSE [st EXCEPT !.region = clamped, !.has_region = TRUE]

\* a handler of the controller that returns nothing, or a bool
GuiStep(op_name, st) ==
    /\ m_state' = st
    /\ ret' = [kind |-> "void", op |-> op_name]
    /\ UNCHANGED <<alpha_map_small_, alpha_map_large_, logo_value_, image, history,
                   i18n_state>>

LoadImage ==
    \E im \in GuiImages :
        LET img == LoadedImage(im[1], im[2], im[3]) IN
        \E found \in GuiRegions(img) :
            /\ m_state' = load_image(m_state, img, found)
            /\ ret' = [kind |-> "bool", op |-> "load_image", result |-> ~IsEmpty(img)]
            /\ UNCHANGED <<alpha_map_small_, alpha_map_large_, logo_value_, image,
                           history, i18n_state>>

CloseImage == GuiStep("close_image", AppStateReset(m_state))

ProcessCurrent ==
    \E u \in UndefinedPixels : GuiStep("process_current", process_current(m_state, u))

RevertToOriginal == GuiStep("revert_to_original", revert_to_original(m_state))

TogglePreview == GuiStep("toggle_preview", toggle_preview(m_state))

SaveImage ==
    /\ \E written \in BOOLEAN : ret' = save_image(m_state, written)
    /\ UNCHANGED <<alpha_map_small_, alpha_map_large_, logo_value_, image, history,
                   m_state, i18n_state>>

SetRemoveMode ==
    \E remove \in BOOLEAN :
        GuiStep("set_remove_mode", [m_state EXCEPT !.remove_mode = remove])

SetSizeMode ==
    \E mode \in SizeModes, found \in GuiRegions(m_state.original) :
        GuiStep("set_size_mode", set_size_mode(m_state, mode, found))

SetForceSize ==
    \E size \in ForceSizes : GuiStep("set_force_size", set_force_size(m_state, size))

SetCustomRegion ==
    \E region \in GuiRegions(m_state.original) :
        GuiStep("set_custom_region", set_custom_region(m_state, region))

\* the controller starts on an engine built from the embedded captures
InitGui ==
    /\ alpha_map_small_ = calculate_alpha_map("small", 0, kSmallLogo, kSmallLogo)
    /\ alpha_map_large_ = calculate_alpha_map("large", 0, kLargeLogo, kLargeLogo)
    /\ logo_value_ = kMaxPixel
    /\ image = EmptyMat
    /\ history = <<>>
    /\ ret = [kind |-> "none", op |-> "construct"]
    /\ m_state = InitialAppState
    /\ i18n_state = InitialI18nState

NextGui ==
    \/ LoadImage
    \/ CloseImage
    \/ ProcessCurrent
    \/ RevertToOriginal
    \/ TogglePreview
    \/ SaveImage
    \/ SetRemoveMode
    \/ SetSizeMode
    \/ SetCustomRegion

SpecGui == InitGui /\ [][NextGui]_vars

\* ---------------------------------------------------------------------------
\* Batch processing in the GUI (gui/app/app_controller.cpp)
\* ---------------------------------------------------------------------------

\* the longest list of files dropped on the window
MaxFiles == 2

\* dropped paths: stem, extension as typed, and whether
\* std::filesystem::is_regular_file holds for the path
DroppedPaths ==
    {[stem |-> "a", ext |-> ".png", regular |-> TRUE],
     [stem |-> "b", ext |-> ".JPG", regular |-> TRUE],
     [stem |-> "notes", ext |-> ".txt", regular |-> TRUE],
     [stem |-> "dir", ext |-> ".png", regular |-> FALSE]}

RECURSIVE SeqsUpTo(_, _)
SeqsUpTo(S, n) ==
    IF n = 0 THEN {<<>>}
    ELSE LET shorter == SeqsUpTo(S, n - 1) IN
         shorter \cup {Append(q, x) : q \in shorter, x \in S}

DroppedLists == SeqsUpTo(DroppedPaths, MaxFiles)

\* ::tolower over the extension
ToLower(ext) ==
    CASE ext = ".JPG" -> ".jpg"
      [] ext = ".PNG" -> ".png"
      [] OTHER -> ext

supported_extensions == {".jpg", ".jpeg", ".png", ".webp", ".bmp"}

is_supported_extension(path) == ToLower(path.ext) \in supported_extensions

\* BatchFileResult as enter_batch_mode queues it
QueuedFile(path) ==
    [path |-> path, status |-> "Pending", confidence |-> 0, runs |-> 0, wrote |-> 0]

\* the filter loop of enter_batch_mode
RECURSIVE SupportedFiles(_)
SupportedFiles(files) ==
    IF files = <<>> THEN <<>>
    ELSE LET f == Head(files)
             rest == SupportedFiles(Tail(files))
         IN  IF is_supported_extension(f) /\ f.regular
             THEN <<QueuedFile(f)>> \o rest ELSE rest

is_batch_mode(b) == b.files # <<>>

is_complete(b) ==
    b.files # <<>> /\ ~b.in_progress /\ b.current_index >= Len(b.files)

can_process(st) ==
    IF is_batch_mode(st.batch) /\ ~st.batch.in_progress THEN TRUE
    ELSE st.state \in {"Loaded", "Completed"}

enter_batch_mode(st, files) ==
    LET queued == SupportedFiles(files)
        cleared == [st EXCEPT !.batch = [BatchClear(st.batch) EXCEPT !.files = queued]]
    IN  IF queued = <<>> THEN cleared
        ELSE [CustomClear(cleared) EXCEPT
                !.size_mode = "Auto", !.force_size = "None",
                !.original = EmptyMat, !.processed = EmptyMat, !.display = EmptyMat,
                !.state = "Idle"]

exit_batch_mode(st) == [st EXCEPT !.batch = BatchClear(st.batch)]

\* the reset loop of start_batch_processing
ResetFile(f) == [f EXCEPT !.status = "Pending", !.confidence = 0, !.runs = 0, !.wrote = 0]

start_batch_processing(st) ==
    IF st.batch.files = <<>> THEN st
    ELSE [st EXCEPT !.batch.current_index = 0, !.batch.success_count = 0,
                    !.batch.skip_count = 0, !.batch.fail_count = 0,
                    !.batch.in_progress = TRUE, !.batch.cancel_requested = FALSE,
                    !.batch.files = [k \in DOMAIN st.batch.files |->
                                        ResetFile(st.batch.files[k])]]

\* a cancel branch that leaves the run in progress
CancelBranchKeepsRunning(b) == b

\* the cancel branch of process_batch_next
CancelBranch(b) == [b EXCEPT !.in_progress = FALSE]

\* a return value that is true up to and including the last file
BatchNextReturnInclusive(b) == b.current_index <= Len(b.files)

\* "return m_state.batch.current_index < m_state.batch.files.size()"
BatchNextReturn(b) == b.current_index < Len(b.files)

\* the status process_batch_next gives the file from process_image's result
StatusOf(proc_result) ==
    IF proc_result.skipped THEN "Skipped"
    ELSE IF proc_result.success THEN "OK" ELSE "Failed"

\* proc_result: what process_image returned for the file at current_index
\* (only used when the call gets as far as processing a file)
process_batch_next(st, proc_result) ==
    LET b == st.batch IN
    IF ~b.in_progress THEN [state |-> st, result |-> FALSE]
    ELSE IF b.cancel_requested
    THEN [state |-> [st EXCEPT !.batch = CancelBranch(b)], result |-> FALSE]
    ELSE IF b.current_index >= Len(b.files)
    THEN [state |-> [st EXCEPT !.batch.in_progress = FALSE], result |-> FALSE]
    ELSE LET k == b.current_index + 1
             status == StatusOf(proc_result)
             f == [b.files[k] EXCEPT
                     !.status = status, !.confidence = proc_result.confidence,
                     !.runs = @ + 1,
                     !.wrote = @ + (IF proc_result.wrote THEN 1 ELSE 0)]
             nb == [b EXCEPT
                     !.files[k] = f,
                     !.skip_count = @ + (IF status = "Skipped" THEN 1 ELSE 0),
                     !.success_count = @ + (IF status = "OK" THEN 1 ELSE 0),
                     !.fail_count = @ + (IF status = "Failed" THEN 1 ELSE 0),
                     !.current_index = @ + 1]
         IN  [state |-> [st EXCEPT !.batch = nb], result |-> BatchNextReturn(nb)]

cancel_batch(st) == [st EXCEPT !.batch.cancel_requested = TRUE]

EnterBatchMode ==
    \E files \in DroppedLists : GuiStep("enter_batch_mode", enter_batch_mode(m_state, files))

ExitBatchMode == GuiStep("exit_batch_mode", exit_batch_mode(m_state))

StartBatchProcessing == GuiStep("start_batch_processing", start_batch_processing(m_state))

\* one call of process_batch_next; the file's decoded content and the results
\* of the library calls inside process_image are inputs
ProcessBatchNext ==
    \E im \in GuiImages, in \in DetectInputsFew, u \in UndefinedPixels,
       write \in WriteOutcomes :
        LET proc_result == process_image(LoadedImage(im[1], im[2], im[3]),
                                         m_state.remove_mode, m_state.force_size,
                                         m_state.batch.use_detection,
                                         m_state.batch.detection_threshold,
                                         in, u, write)
            out == process_batch_next(m_state, proc_result)
        IN  /\ m_state' = out.state
            /\ ret' = [kind |-> "batch", op |-> "process_batch_next",
                       result |-> out.result]
            /\ UNCHANGED <<alpha_map_small_, alpha_map_large_, logo_value_, image,
                           history, i18n_state>>

CancelBatch == GuiStep("cancel_batch", cancel_batch(m_state))

NextBatch ==
    \/ EnterBatchMode
    \/ ExitBatchMode
    \/ StartBatchProcessing
    \/ ProcessBatchNext
    \/ CancelBatch
    \/ LoadImage

SpecBatch == InitGui /\ [][NextBatch]_vars

\* one image session with its options, and the switch to and from batch mode
NextSession ==
    \/ LoadImage
    \/ CloseImage
    \/ ProcessCurrent
    \/ RevertToOriginal
    \/ TogglePreview
    \/ SetForceSize
    \/ SetSizeMode
    \/ EnterBatchMode
    \/ ExitBatchMode

SpecSession == InitGui /\ [][NextSession]_vars

\* MainWindow::render: once per frame, "if (state.batch.in_progress)
\* m_controller.process_batch_next()"
BatchTick == m_state.batch.in_progress /\ ProcessBatchNext

\* files dropped on the window while no run is in progress
DropFilesWhenIdle == ~m_state.batch.in_progress /\ EnterBatchMode

\* the Process button, enabled by can_process(), and the confirmation
\* dialog's Process button after it
StartWhenAllowed ==
    /\ is_batch_mode(m_state.batch)
    /\ can_process(m_state)
    /\ StartBatchProcessing

\* a run that nothing interrupts: the queue is filled and the run started
\* only between runs, and the frame loop keeps calling process_batch_next
NextBatchRun ==
    \/ DropFilesWhenIdle
    \/ StartWhenAllowed
    \/ ProcessBatchNext

SpecBatchRun == InitGui /\ [][NextBatchRun]_vars /\ WF_vars(BatchTick)

\* ---------------------------------------------------------------------------
\* The main window's events (gui/widgets/main_window.cpp)
\* ---------------------------------------------------------------------------

\* MainWindow::action_process: in batch mode it opens the confirmation
\* dialog, otherwise it calls process_current
action_process(st, u) ==
    IF is_batch_mode(st.batch) THEN [st EXCEPT !.batch.show_confirm_dialog = TRUE]
    ELSE process_current(st, u)

\* the controller call action_process ends in
ActionProcessCall(st) ==
    IF is_batch_mode(st.batch) THEN "show_confirm_dialog" ELSE "process_current"

\* MainWindow::action_close_file
action_close_file(st) ==
    AppStateReset(IF is_batch_mode(st.batch) THEN exit_batch_mode(st) ELSE st)

\* an event the window handled: the call it ended in, and the state the call
\* was made in
UiStep(event, call, st) ==
    /\ m_state' = st
    /\ ret' = [kind |-> "ui", op |-> event, call |-> call,
               was_in_progress |-> m_state.batch.in_progress,
               state_before |-> m_state.state,
               had_image |-> has_image(m_state)]
    /\ UNCHANGED <<alpha_map_small_, alpha_map_large_, logo_value_, image, history,
                   i18n_state>>

\* SDL_EVENT_KEY_DOWN with key X and no modifier
KeyX ==
    \E u \in UndefinedPixels :
        UiStep("key_x", ActionProcessCall(m_state), action_process(m_state, u))

\* the toolbar button, the Edit menu item and the panel button, all enabled
\* by can_process()
ProcessButton ==
    /\ can_process(m_state)
    /\ \E u \in UndefinedPixels :
          UiStep("process_button", ActionProcessCall(m_state), action_process(m_state, u))

\* the confirmation dialog's Process button
ConfirmProcess ==
    /\ m_state.batch.show_confirm_dialog
    /\ UiStep("confirm_process", "start_batch_processing",
              start_batch_processing([m_state EXCEPT !.batch.show_confirm_dialog = FALSE]))

\* the confirmation dialog's Cancel button
ConfirmCancel ==
    /\ m_state.batch.show_confirm_dialog
    /\ UiStep("confirm_cancel", "none",
              [m_state EXCEPT !.batch.show_confirm_dialog = FALSE])

\* the panel's Cancel button, shown while a run is in progress
CancelButton ==
    /\ m_state.batch.in_progress
    /\ UiStep("cancel_button", "cancel_batch", cancel_batch(m_state))

\* SDL_EVENT_DROP_COMPLETE: one file is loaded, several enter batch mode
DropComplete ==
    \E files \in DroppedLists :
        /\ files # <<>>
        /\ IF Len(files) = 1
           THEN \E im \in GuiImages :
                    LET img == LoadedImage(im[1], im[2], im[3]) IN
                    \E found \in GuiRegions(img) :
                        UiStep("drop", "load_image",
                               load_image(exit_batch_mode(m_state), img, found))
           ELSE UiStep("drop", "enter_batch_mode",
                       enter_batch_mode(exit_batch_mode(m_state), files))

\* Ctrl+W
CloseFile == UiStep("close_file", "close_image", action_close_file(m_state))

NextUi ==
    \/ KeyX
    \/ ProcessButton
    \/ ConfirmProcess
    \/ ConfirmCancel
    \/ CancelButton
    \/ DropComplete
    \/ CloseFile
    \/ BatchTick

SpecUi == InitGui /\ [][NextUi]_vars

----------------------------------------------------------------------------
\* i18n: language files, init, set_language, tr

Languages == {"English", "ChineseSimp", "ChineseTrad", "Japanese"}

lang_to_filename(lang) ==
    CASE lang = "English" -> "en.json"
      [] lang = "ChineseSimp" -> "zh-CN.json"
      [] lang = "ChineseTrad" -> "zh-TW.json"
      [] lang = "Japanese" -> "ja.json"
      [] OTHER -> "en.json"

\* JSON values: a string, a number, or an object (a map from keys to values)
JStr(v) == [t |-> "str", v |-> v]
JNum(v) == [t |-> "num", v |-> v]
JObj(v) == [t |-> "obj", v |-> v]

\* the files on disk, by path; a path not listed does not exist, and a file
\* without json is not valid JSON
LangFiles ==
    [p \in {"lang/en.json", "lang/zh-CN.json", "lang/zh-TW.json", "alt/en.json", "alt/ja.json"} |->
       CASE p = "lang/en.json" ->
              [valid |-> TRUE,
               json |-> [meta |-> JObj([name |-> JStr("English")]),
                         menu |-> JObj(("file" :> JStr("File")) @@
                                       ("file.open" :> JStr("Open..."))),
                         status |-> JStr("Ready"),
                         count |-> JNum(3)]]
         [] p = "lang/zh-CN.json" ->
              [valid |-> TRUE,
               json |-> [meta |-> JObj([name |-> JStr("Chinese")]),
                         menu |-> JObj([file |-> JStr("Wenjian")])]]
         [] p = "lang/zh-TW.json" -> [valid |-> FALSE, json |-> NoStrings]
         [] p = "alt/en.json" ->
              [valid |-> TRUE,
               json |-> ("" :> JStr("Blank")) @@
                        [menu |-> JObj([file |-> JStr("File2")])]]
         [] OTHER ->
              [valid |-> TRUE,
               json |-> [menu |-> JObj([file |-> JStr("Fairu")]),
                         extra |-> JStr("Tsuika")]]]

\* directories a caller passes to init
LangDirs == {"lang", "alt", "nonexistent"}

\* keys a caller passes to tr
Keys == {"menu.file", "menu.file.open", "status", "extra", "meta.name",
         "count", "unknown.key", ""}

RECURSIVE FlattenItems(_, _, _)
\* the entries flatten_json adds for the items of j named in keys
FlattenItems(j, prefix, keys) ==
    IF keys = {} THEN NoStrings
    ELSE LET key == CHOOSE k \in keys : TRUE
             value == j[key]
             full_key == IF prefix = "" THEN key ELSE prefix \o "." \o key
             added == IF prefix = "" /\ key = "meta" THEN NoStrings
                      ELSE IF value.t = "obj"
                      THEN FlattenItems(value.v, full_key, DOMAIN value.v)
                      ELSE IF value.t = "str" THEN full_key :> value.v
                      ELSE NoStrings
         IN  added @@ FlattenItems(j, prefix, keys \ {key})

flatten_json(j, prefix) == FlattenItems(j, prefix, DOMAIN j)

\* out is replaced only after the file was found and parsed
load_language_file(path, out) ==
    IF path \notin DOMAIN LangFiles THEN [ok |-> FALSE, out |-> out]
    ELSE IF ~LangFiles[path].valid THEN [ok |-> FALSE, out |-> out]
    ELSE [ok |-> TRUE, out |-> flatten_json(LangFiles[path].json, "")]

\* a failed switch that leaves the previous language in place
set_language_keep_previous(s, lang) ==
    IF ~s.initialized THEN [result |-> FALSE, s |-> s]
    ELSE IF lang = "English"
    THEN [result |-> TRUE, s |-> [s EXCEPT !.strings = s.fallback, !.current = lang]]
    ELSE LET loaded == load_language_file(s.lang_dir \o "/" \o lang_to_filename(lang),
                                          s.strings)
         IN  IF loaded.ok
             THEN [result |-> TRUE,
                   s |-> [s EXCEPT !.strings = loaded.out, !.current = lang]]
             ELSE [result |-> FALSE, s |-> s]

set_language(s, lang) ==
    IF ~s.initialized THEN [result |-> FALSE, s |-> s]
    ELSE IF lang = "English"
    THEN [result |-> TRUE, s |-> [s EXCEPT !.strings = s.fallback, !.current = lang]]
    ELSE LET loaded == load_language_file(s.lang_dir \o "/" \o lang_to_filename(lang),
                                          s.strings)
         IN  IF loaded.ok
             THEN [result |-> TRUE,
                   s |-> [s EXCEPT !.strings = loaded.out, !.current = lang]]
             ELSE [result |-> FALSE,
                   s |-> [s EXCEPT !.strings = s.fallback, !.current = "English"]]

init(s, lang_dir, lang) ==
    LET s0 == [s EXCEPT !.lang_dir = lang_dir, !.initialized = FALSE]
        en == load_language_file(lang_dir \o "/" \o "en.json", s0.fallback)
    IN  IF ~en.ok THEN [result |-> FALSE, s |-> s0]
        ELSE LET s1 == [s0 EXCEPT !.fallback = en.out, !.initialized = TRUE,
                                  !.loaded_from = lang_dir]
             IN  IF lang = "English"
                 THEN [result |-> TRUE,
                       s |-> [s1 EXCEPT !.strings = s1.fallback, !.current = lang]]
                 ELSE set_language(s1, lang)

\* a lookup that prefers the English fallback
tr_fallback_first(s, key) ==
    IF key \in DOMAIN s.fallback
    THEN [null |-> FALSE, str |-> s.fallback[key], s |-> s]
    ELSE IF key \in DOMAIN s.strings
    THEN [null |-> FALSE, str |-> s.strings[key], s |-> s]
    ELSE [null |-> FALSE, str |-> key, s |-> [s EXCEPT !.last_lookup_result = key]]

\* the const char* returned, as the string it points to
tr(s, key) ==
    IF key \in DOMAIN s.strings
    THEN [null |-> FALSE, str |-> s.strings[key], s |-> s]
    ELSE IF key \in DOMAIN s.fallback
    THEN [null |-> FALSE, str |-> s.fallback[key], s |-> s]
    ELSE [null |-> FALSE, str |-> key, s |-> [s EXCEPT !.last_lookup_result = key]]

I18nInit ==
    /\ \E lang_dir \in LangDirs, lang \in Languages :
          LET r == init(i18n_state, lang_dir, lang) IN
          /\ i18n_state' = r.s
          /\ ret' = [kind |-> "init", op |-> "init", result |-> r.result,
                     lang_dir |-> lang_dir, lang |-> lang]
    /\ UNCHANGED <<alpha_map_small_, alpha_map_large_, logo_value_, image, history,
                   m_state>>

SetLanguage ==
    /\ \E lang \in Languages :
          LET r == set_language(i18n_state, lang) IN
          /\ i18n_state' = r.s
          /\ ret' = [kind |-> "set_language", op |-> "set_language",
                     result |-> r.result, lang |-> lang,
                     was_initialized |-> i18n_state.initialized,
                     previous |-> i18n_state.current]
    /\ UNCHANGED <<alpha_map_small_, alpha_map_large_, logo_value_, image, history,
                   m_state>>

Tr ==
    /\ \E key \in Keys :
          LET r == tr(i18n_state, key) IN
          /\ i18n_state' = r.s
          /\ ret' = [kind |-> "tr", op |-> "tr", key |-> key,
                     null |-> r.null, str |-> r.str]
    /\ UNCHANGED <<alpha_map_small_, alpha_map_large_, logo_value_, image, history,
                   m_state>>

NextI18n == I18nInit \/ SetLanguage \/ Tr

SpecI18n == InitGui /\ [][NextI18n]_vars

----------------------------------------------------------------------------
\* Properties

\* the buffer a recorded call left behind
After(k) == IF k = Len(history) THEN image ELSE history[k + 1].before

IsDetection == ret.kind = "detection"

C2_Placement ==
    \A k \in 1 .. Len(history) :
        LET h == history[k]
            w == h.before.cols
            ht == h.before.rows
            cls == IF h.force_size # "None" THEN h.force_size
                   ELSE IF w > 1024 /\ ht > 1024 THEN "Large" ELSE "Small"
            margin == IF cls = "Small" THEN 32 ELSE 64
            footprint == IF cls = "Small" THEN 48 ELSE 96
        IN  (h.op \in {"remove", "add"} /\ ~h.threw) =>
                /\ h.size = cls
                /\ h.pos = [x |-> w - margin - footprint, y |-> ht - margin - footprint]
                /\ h.map.cols = footprint /\ h.map.rows = footprint
                /\ h.map = IF cls = "Small" THEN alpha_map_small_ ELSE alpha_map_large_

C2_Witness ==
    \E k \in 1 .. Len(history) :
        /\ history[k].op = "remove" /\ history[k].force_size = "None"
        /\ history[k].before.cols = 900 /\ history[k].before.rows = 900
        /\ history[k].size = "Small"
        /\ history[k].pos = [x |-> 820, y |-> 820]
        /\ After(k).data # history[k].before.data

\* the alpha numerator call h applied at probe d, or 0 outside its map
AlphaUsed(h, d) ==
    LET x == h.before.cols - d[1]
        y == h.before.rows - d[2]
    IN  IF InROI(BlendROI(h.before, h.map, h.pos), x, y)
        THEN AlphaAt(h.map, x - h.pos.x, y - h.pos.y) ELSE 0

\* calls k and k+1 apply and then remove the watermark with the same
\* arguments
IsRoundTrip(k) ==
    /\ k + 1 <= Len(history)
    /\ ~history[k].threw
    /\ \/ /\ history[k].op = "add" /\ history[k + 1].op = "remove"
          /\ history[k].force_size = history[k + 1].force_size
       \/ /\ history[k].op = "add_custom" /\ history[k + 1].op = "remove_custom"
          /\ history[k].region = history[k + 1].region

\* C3: removing the watermark after applying it with the same map, position
\* and foreground value restores every pixel whose alpha is below 1, up to
\* rounding: the 8-bit composite is off by at most 1/2, which the division
\* by (1 - alpha) scales, and the result is rounded once more, so
\* |restored - original| <= (1/2) / (1 - alpha) + 1/2.  A pixel outside the
\* map is restored exactly.
C3_RoundTrip ==
    \A k \in 1 .. Len(history) :
        IsRoundTrip(k) =>
            /\ history[k + 1].map = history[k].map
            /\ history[k + 1].pos = history[k].pos
            /\ \A d \in DOMAIN history[k].before.data :
                  LET a == AlphaUsed(history[k], d)
                      original == history[k].before.data[d]
                      restored == After(k + 1).data[d]
                  IN  a < 255 =>
                        2 * Abs(restored - original) * (255 - a) <= 254 + (255 - a)

C3_Witness ==
    \E k \in 1 .. Len(history) :
        /\ IsRoundTrip(k)
        /\ history[k].op = "add" /\ history[k].force_size = "Large"
        /\ history[k].before.cols = 2000 /\ history[k].before.rows = 2000
        /\ \E d \in DOMAIN history[k].before.data :
              /\ AlphaUsed(history[k], d) \in 100 .. 200
              /\ After(k).data[d] > history[k].before.data[d] + 50
              /\ After(k + 1).data[d] < After(k).data[d] - 50

\* C8: each of the four mutating entry points, given an empty buffer, throws
\* and leaves the buffer as it was (no channel conversion, no pixel change).
C8_EmptyInputThrows ==
    \A k \in 1 .. Len(history) :
        IsEmpty(history[k].before) =>
            /\ history[k].threw
            /\ After(k) = history[k].before
            /\ (k = Len(history) => ret.kind = "threw")

C8_Witness ==
    /\ Len(history) = 2
    /\ history[1].op = "remove_custom" /\ history[1].threw
    /\ history[2].op = "add" /\ history[2].threw
    /\ IsEmpty(image) /\ image.channels = 1

\* C4: given an override, detect_watermark reports the override's class and
\* the region remove_watermark would modify under that override: the
\* override's footprint at (width - margin - footprint,
\* height - margin - footprint) with the override's margin and footprint.
C4_DetectRegionFollowsOverride ==
    (IsDetection /\ ret.force_size # "None" /\ ~IsEmpty(image)) =>
        LET margin == IF ret.force_size = "Small" THEN 32 ELSE 64
            footprint == IF ret.force_size = "Small" THEN 48 ELSE 96
        IN  /\ ret.size = ret.force_size
            /\ ret.region = [x |-> image.cols - margin - footprint,
                             y |-> image.rows - margin - footprint,
                             width |-> footprint, height |-> footprint]

\* C5: every DetectionResult has a confidence between 0 and 1.
C5_ConfidenceInUnitRange ==
    IsDetection => (0 <= ret.confidence /\ ret.confidence <= 1000)

\* C6: when stage 1 yields a spatial score below 0.25, detection stops there:
\* detected is false, confidence is half the spatial score, and the gradient
\* and variance stages are not evaluated (their scores stay 0); stages 2 and
\* 3 are evaluated only with a spatial score of at least 0.25.
C6_CircuitBreaker ==
    IsDetection =>
        /\ (1 \in ret.stages /\ ret.spatial_score < 25) =>
              /\ ~ret.detected
              /\ 2 * ret.confidence * 100 = ret.spatial_score * 1000
              /\ ret.stages = {1}
              /\ ret.gradient_score = 0 /\ ret.variance_score = 0
        /\ (2 \in ret.stages \/ 3 \in ret.stages) => ret.spatial_score >= 25

C6_Witness ==
    /\ IsDetection /\ ret.stages = {1}
    /\ ret.spatial_score = 24 /\ ret.confidence = 120 /\ ~ret.detected

\* C7: when all three stages ran, confidence is
\* 0.50*spatial + 0.30*gradient + 0.20*variance clamped to [0, 1], and
\* detected holds if and only if confidence >= 0.35; detected never holds
\* with a spatial score below 0.25.
C7_Fusion ==
    IsDetection =>
        /\ ret.stages = {1, 2, 3} =>
              LET sum == 50 * ret.spatial_score + 30 * ret.gradient_score
                            + 20 * ret.variance_score
              IN  /\ 10 * ret.confidence =
                        (IF sum < 0 THEN 0 ELSE IF sum > 10000 THEN 10000 ELSE sum)
                  /\ ret.detected <=> ret.confidence >= 350
        /\ ret.detected => (ret.stages = {1, 2, 3} /\ ret.spatial_score >= 25)

C7_Witness ==
    /\ IsDetection /\ ret.stages = {1, 2, 3}
    /\ ret.spatial_score = 70 /\ ret.gradient_score = 0 /\ ret.variance_score = 0
    /\ ret.confidence = 350 /\ ret.detected

\* C9 as stated: detect_watermark on an empty buffer fails with an error, as
\* remove and add do.
C9_DetectEmptyThrows ==
    (ret.op = "detect" /\ IsEmpty(image)) => ret.kind = "threw"

\* C9: detect_watermark on an empty buffer does not fail: it returns a
\* DetectionResult with detected false, confidence 0 and all stage scores 0,
\* without evaluating any stage.
C9_DetectEmptyReturnsZero ==
    (ret.op = "detect" /\ IsEmpty(image)) =>
        /\ ret.kind = "detection"
        /\ ~ret.detected /\ ret.confidence = 0
        /\ ret.spatial_score = 0 /\ ret.gradient_score = 0
        /\ ret.variance_score = 0
        /\ ret.stages = {}

C9_Witness ==
    /\ ret.op = "detect" /\ IsEmpty(image)
    /\ ret.kind = "detection" /\ ret.confidence = 0

\* the reported region has no pixel inside the image
ClampedRegionIsEmpty(region, img) ==
    \/ Min(img.cols, region.x + region.width) <= Max(0, region.x)
    \/ Min(img.rows, region.y + region.height) <= Max(0, region.y)

\* C10: for a non-empty image whose candidate region, clamped to the image,
\* has zero area, detect_watermark returns normally with detected false,
\* confidence 0 and all stage scores 0.
C10_DegenerateRegion ==
    (ret.op = "detect" /\ ~IsEmpty(image) /\ ClampedRegionIsEmpty(ret.region, image)) =>
        /\ ret.kind = "detection"
        /\ ~ret.detected /\ ret.confidence = 0
        /\ ret.spatial_score = 0 /\ ret.gradient_score = 0
        /\ ret.variance_score = 0

C10_Witness ==
    /\ IsDetection /\ image.cols = 30 /\ image.rows = 30
    /\ ret.force_size = "None"
    /\ ret.region = [x |-> -50, y |-> -50, width |-> 48, height |-> 48]
    /\ ret.confidence = 0 /\ ~ret.detected

IsCustomCall(h) == h.op \in {"remove_custom", "add_custom"} /\ ~h.threw

\* C11: a custom rectangle of exactly 48x48 is composited with the canonical
\* Small map and one of exactly 96x96 with the canonical Large map, both
\* untouched; every other size (also with one side 48 or 96) gets a map of
\* the rectangle's size resampled from the Large map; the map is applied at
\* the rectangle's (x, y).
C11_CustomMapSelection ==
    \A k \in 1 .. Len(history) :
        LET h == history[k] IN
        IsCustomCall(h) =>
            /\ h.pos = [x |-> h.region.x, y |-> h.region.y]
            /\ (h.region.width = 48 /\ h.region.height = 48) =>
                  h.map = alpha_map_small_
            /\ (h.region.width = 96 /\ h.region.height = 96) =>
                  h.map = alpha_map_large_
            /\ ~(h.region.width = 48 /\ h.region.height = 48)
                 /\ ~(h.region.width = 96 /\ h.region.height = 96) =>
                  /\ h.map.method \in {"linear", "area"}
                  /\ h.map.src = "large" /\ h.map.seed = alpha_map_large_.seed
                  /\ h.map.cols = h.region.width /\ h.map.rows = h.region.height

C11_Witness ==
    \E k \in 1 .. Len(history) :
        /\ IsCustomCall(history[k])
        /\ history[k].region.width = 48 /\ history[k].region.height = 96
        /\ history[k].map.method = "area"
        /\ history[k].map.cols = 48 /\ history[k].map.rows = 96
        /\ After(k).data # history[k].before.data

\* the rectangle call h is to composite into: the rectangle given, or the
\* placement of the override's class, else of the class of the dimensions
TargetRect(h) ==
    IF h.op \in {"remove_custom", "add_custom"} THEN h.region
    ELSE LET w == h.before.cols
             ht == h.before.rows
             cls == IF h.force_size # "None" THEN h.force_size
                    ELSE IF w > 1024 /\ ht > 1024 THEN "Large" ELSE "Small"
             margin == IF cls = "Small" THEN 32 ELSE 64
             footprint == IF cls = "Small" THEN 48 ELSE 96
         IN  [x |-> w - margin - footprint, y |-> ht - margin - footprint,
              width |-> footprint, height |-> footprint]

\* pixel (x, y) of img lies in rect
InRect(rect, img, x, y) ==
    /\ 0 <= x /\ x < img.cols /\ 0 <= y /\ y < img.rows
    /\ rect.x <= x /\ x < rect.x + rect.width
    /\ rect.y <= y /\ y < rect.y + rect.height

\* C15: a compositing call on a non-empty image does not fail and changes
\* only pixels inside the intersection of the map's extent at its position
\* with the image; every other pixel is unchanged, also when the position
\* is negative or the extent reaches beyond the image.
C15_CompositingFrame ==
    \A k \in 1 .. Len(history) :
        LET h == history[k] IN
        ~IsEmpty(h.before) =>
            /\ ~h.threw
            /\ After(k).cols = h.before.cols /\ After(k).rows = h.before.rows
            /\ DOMAIN After(k).data = DOMAIN h.before.data
            /\ \A d \in DOMAIN h.before.data :
                  ~InRect(TargetRect(h), h.before, h.before.cols - d[1],
                          h.before.rows - d[2])
                      => After(k).data[d] = h.before.data[d]

C15_Witness ==
    \E k \in 1 .. Len(history) :
        /\ history[k].op = "add" /\ history[k].force_size = "None"
        /\ history[k].before.cols = 60 /\ history[k].before.rows = 60
        /\ history[k].pos = [x |-> -20, y |-> -20]
        /\ After(k).data[<<33, 33>>] # history[k].before.data[<<33, 33>>]
        /\ After(k).data[<<1, 1>>] = history[k].before.data[<<1, 1>>]

\* the alpha values of map m1 are those of m2 at sampled cells
SameContents(m1, m2) ==
    /\ m1.cols = m2.cols /\ m1.rows = m2.rows
    /\ \A i \in {0, 15, 47, 60, 95}, j \in {0, 15, 47, 90, 95} :
          (i < m1.cols /\ j < m1.rows) => AlphaAt(m1, i, j) = AlphaAt(m2, i, j)

\* C12: no call changes the canonical maps: after every call both have the
\* contents and dimensions (48x48, 96x96) construction gave them; the map
\* handed out for a 96x96 target is a copy of the Large map, not the map
\* itself.
C12_MapsImmutable ==
    [][/\ alpha_map_small_' = alpha_map_small_
       /\ alpha_map_large_' = alpha_map_large_
       /\ alpha_map_small_'.cols = 48 /\ alpha_map_small_'.rows = 48
       /\ alpha_map_large_'.cols = 96 /\ alpha_map_large_'.rows = 96
       /\ (ret'.kind = "map" /\ ret'.target_width = 96 /\ ret'.target_height = 96) =>
             /\ ret'.map.method = "clone"
             /\ ret'.map # alpha_map_large_'
             /\ SameContents(ret'.map, alpha_map_large_')]_vars

C12_Witness ==
    /\ Len(history) = 2
    /\ history[1].op = "remove_custom" /\ history[1].map.method = "linear"
    /\ ret.kind = "map" /\ ret.target_width = 96 /\ ret.target_height = 96
    /\ ret.map.method = "clone"
    /\ alpha_map_large_ = calculate_alpha_map("large", alpha_map_large_.seed, 96, 96)

\* the outcomes the engine gives now for the call recorded in h
Replay(h) ==
    IF h.op = "remove"
    THEN {remove_watermark(h.before, h.force_size, u) : u \in UndefinedPixels}
    ELSE IF h.op = "add"
    THEN {add_watermark(h.before, h.force_size)}
    ELSE IF h.op = "remove_custom"
    THEN {remove_watermark_custom(h.before, h.region, u) : u \in UndefinedPixels}
    ELSE IF h.op = "add_custom"
    THEN {add_watermark_custom(h.before, h.region)}
    ELSE IF h.op = "detect"
    THEN {[threw |-> FALSE, image |-> h.before, size |-> r.size,
           pos |-> NoPos, map |-> NoMap, region |-> r.region] :
            r \in {detect_watermark(h.before, h.force_size, in) : in \in DetectInputsFew}}
    ELSE {[threw |-> FALSE, image |-> h.before, size |-> "n/a", pos |-> NoPos,
           map |-> create_interpolated_alpha(h.region.width, h.region.height)]}

\* the outcome recorded when call k was served
Recorded(k) ==
    LET h == history[k]
        out == [threw |-> h.threw, image |-> After(k), size |-> h.size,
                pos |-> h.pos, map |-> h.map]
    IN  IF h.op = "detect" THEN out @@ [region |-> h.region] ELSE out

C20_ResampleMethod ==
    ret.kind = "map" =>
        LET w == ret.target_width
            h == ret.target_height
        IN  /\ ret.map.cols = w /\ ret.map.rows = h
            /\ ret.map.src = "large"
            /\ (w = kLargeLogo /\ h = kLargeLogo) =>
                  /\ ret.map.method = "clone"
                  /\ SameContents(ret.map, alpha_map_large_)
            /\ (~(w = kLargeLogo /\ h = kLargeLogo) /\ (w > kLargeLogo \/ h > kLargeLogo)) =>
                  ret.map.method = "linear"
            /\ (~(w = kLargeLogo /\ h = kLargeLogo) /\ w <= kLargeLogo /\ h <= kLargeLogo) =>
                  ret.map.method = "area"

C20_Witness ==
    /\ Len(history) = 2
    /\ history[1].op = "resample" /\ history[1].map.method = "area"
    /\ history[1].region.width = 96 /\ history[1].region.height = 50
    /\ ret.kind = "map" /\ ret.target_width = 120 /\ ret.target_height = 50
    /\ ret.map.method = "linear"

\* an engine exists once a constructor has returned normally
EngineExists == ret.op \in Ctors /\ ret.kind = "void"

\* C14: either constructor throws exactly when the small or the large
\* capture cannot be decoded, and then no engine exists (no maps were built);
\* every engine that exists holds a 48x48 Small map and a 96x96 Large map
\* computed from its captures, captures of other sizes being resized first.
C14_Construction ==
    ret.op \in Ctors =>
        /\ (ret.kind = "threw") <=> (IsEmpty(ret.bg_small) \/ IsEmpty(ret.bg_large))
        /\ ret.kind = "threw" =>
              /\ ~EngineExists
              /\ alpha_map_small_ = NoMap /\ alpha_map_large_ = NoMap
        /\ EngineExists =>
              /\ alpha_map_small_.cols = kSmallLogo /\ alpha_map_small_.rows = kSmallLogo
              /\ alpha_map_large_.cols = kLargeLogo /\ alpha_map_large_.rows = kLargeLogo
              /\ alpha_map_small_.src = "small" /\ alpha_map_small_.seed = ret.bg_small.seed
              /\ alpha_map_large_.src = "large" /\ alpha_map_large_.seed = ret.bg_large.seed
              /\ ret.warned_small <=> <<ret.bg_small.cols, ret.bg_small.rows>> # <<48, 48>>
              /\ ret.warned_large <=> <<ret.bg_large.cols, ret.bg_large.rows>> # <<96, 96>>

C14_Witness ==
    /\ ret.op = "from_bytes" /\ ret.kind = "threw" /\ ret.failed = "large"
    /\ ret.bg_small.cols = 40 /\ ~IsEmpty(ret.bg_small)
    /\ IsEmpty(ret.bg_large)
    /\ alpha_map_large_ = NoMap

\* C16: in removal mode with detection enabled, a loaded image is skipped
\* exactly when its detection confidence is below the caller's threshold,
\* whatever the detector's own 0.35 decision says.
C16_SkipBelowThreshold ==
    (ret.kind = "process" /\ ret.detection_ran) =>
        (ret.skipped <=> ret.confidence < ret.detection_threshold)

Translations(path) ==
    CASE path = "lang/en.json" ->
           ("menu.file" :> "File") @@ ("menu.file.open" :> "Open...") @@
           ("status" :> "Ready")
      [] path = "lang/zh-CN.json" -> ("menu.file" :> "Wenjian")
      [] path = "alt/en.json" -> ("" :> "Blank") @@ ("menu.file" :> "File2")
      [] path = "alt/ja.json" -> ("menu.file" :> "Fairu") @@ ("extra" :> "Tsuika")
      [] OTHER -> NoStrings

\* whether the file of a language can be loaded from a directory
Loads(dir, lang) ==
    LET path == dir \o "/" \o lang_to_filename(lang) IN
    path \in DOMAIN LangFiles /\ LangFiles[path].valid

\* the strings of the current language and of English, from the directory
\* the system was last initialised from (none before the first init)
CurrentStrings ==
    Translations(i18n_state.loaded_from \o "/" \o lang_to_filename(i18n_state.current))

EnglishStrings == Translations(i18n_state.loaded_from \o "/" \o "en.json")

\* C18: in every state tr(key) returns the current language's string for
\* the key if it has one, otherwise the English fallback string if English
\* has one, otherwise the key itself (the empty string for an empty key that
\* no file defines); it never returns null.
C18_LookupOrder ==
    ret.kind = "tr" =>
        /\ ~ret.null
        /\ ret.str = IF ret.key \in DOMAIN CurrentStrings THEN CurrentStrings[ret.key]
                     ELSE IF ret.key \in DOMAIN EnglishStrings THEN EnglishStrings[ret.key]
                     ELSE ret.key
        /\ (ret.key = "" /\ "" \notin DOMAIN EnglishStrings) => ret.str = ""

C18_Witness ==
    /\ ret.kind = "tr" /\ ret.key = "status" /\ ret.str = "Ready"
    /\ i18n_state.current = "ChineseSimp"
    /\ ~i18n_state.initialized
    /\ i18n_state.lang_dir = "nonexistent"

\* C19: on an initialised system set_language(L) returns true and makes L
\* the current language, with L's strings active, when L is English or L's
\* file loads; when L's file cannot be loaded it returns false and English
\* becomes the current language with the English strings active, whatever
\* the language was before.
C19_LanguageSwitch ==
    (ret.kind = "set_language" /\ ret.was_initialized) =>
        IF ret.lang = "English" \/ Loads(i18n_state.lang_dir, ret.lang)
        THEN /\ ret.result
             /\ i18n_state.current = ret.lang
             /\ i18n_state.strings = CurrentStrings
        ELSE /\ ~ret.result
             /\ i18n_state.current = "English"
             /\ i18n_state.strings = EnglishStrings

C19_Witness ==
    /\ ret.kind = "set_language" /\ ret.was_initialized
    /\ ret.previous = "ChineseSimp" /\ ret.lang = "ChineseTrad"
    /\ ~ret.result
    /\ i18n_state.current = "English"
    /\ i18n_state.strings["menu.file"] = "File"

\* the footprint side of a size class
Footprint(size) == IF size = "Small" THEN kSmallLogo ELSE kLargeLogo

\* C21: when stage 3 ran, the reference strip is the strip of the clamped
\* region's width right above it, of height min(region y offset, footprint
\* of the resolved size class), never reaching above row 0; variance_score is
\* 0 unless that height is > 8 and the strip's std-dev is > 5.0, and then it
\* is clamp(1 - std(region)/std(reference), 0, 1).
C21_VarianceGating ==
    (IsDetection /\ 3 \in ret.stages) =>
        LET ref_h == Min(ret.roi.y, Footprint(ret.size))
            gated == ref_h > kMinRefHeight /\ ret.in.s_ref > kMinRefStd
        IN  /\ ref_h > kMinRefHeight =>
                  ret.ref_roi = [x |-> ret.roi.x, y |-> ret.roi.y - ref_h,
                                 width |-> ret.roi.width, height |-> ref_h]
            /\ ret.ref_roi.y >= 0
            /\ ret.variance_score =
                  IF gated
                  THEN Clamp(ScoreOne - (ret.in.s_wm * ScoreOne) \div ret.in.s_ref,
                             0, ScoreOne)
                  ELSE 0

\* C22: a skip happens only with use_detection in removal mode; otherwise
\* detection is not run and a loaded image is always processed.  A skipped
\* image has skipped = true and success = true, the engine's remove was not
\* called and no output was written.  Every failure (load, write, exception)
\* has success = false and skipped = false, and a success that is not a skip
\* wrote the output.
C22_SkipOutcome ==
    ret.kind = "process" =>
        /\ ret.skipped =>
              /\ ret.use_detection /\ ret.remove /\ ret.detection_ran
              /\ ret.success /\ ~ret.processed /\ ~ret.wrote
        /\ ~(ret.use_detection /\ ret.remove) =>
              /\ ~ret.detection_ran /\ ~ret.skipped
              /\ ~IsEmpty(image) => ret.processed
        /\ IsEmpty(image) => (~ret.success /\ ~ret.skipped /\ ~ret.processed)
        /\ ~ret.success => (~ret.skipped /\ ~ret.wrote)
        /\ (ret.success /\ ~ret.skipped) => (ret.processed /\ ret.wrote)

C22_Witness ==
    /\ ret.kind = "process" /\ ret.skipped /\ ret.success
    /\ ret.use_detection /\ ret.remove
    /\ ~ret.processed /\ ~ret.wrote
    /\ ret.confidence < ret.detection_threshold


\* the statuses a processed file ends with
TerminalStatuses == {"OK", "Skipped", "Failed"}

\* C25: in every state reachable through enter_batch_mode,
\* start_batch_processing, process_batch_next, cancel_batch, exit_batch_mode
\* and load_image, the three counters add up to current_index, which never
\* exceeds the queue length; no file is left Processing, exactly the files
\* before current_index have a terminal status (the others are Pending), and a
\* run in progress has a non-empty queue.
C25_BatchAccounting ==
    LET b == m_state.batch
        N == Len(b.files)
    IN  /\ b.success_count + b.skip_count + b.fail_count = b.current_index
        /\ b.current_index <= N
        /\ \A k \in 1 .. N :
              /\ b.files[k].status # "Processing"
              /\ (k <= b.current_index) <=> (b.files[k].status \in TerminalStatuses)
              /\ (k > b.current_index) => b.files[k].status = "Pending"
        /\ b.in_progress => N > 0

\* a run over two files has counted one skipped and one failed file
C25_Witness ==
    /\ ret.op = "process_batch_next"
    /\ Len(m_state.batch.files) = 2
    /\ m_state.batch.current_index = 2
    /\ m_state.batch.skip_count = 1
    /\ m_state.batch.fail_count = 1
    /\ m_state.batch.in_progress


\* what one call of process_batch_next does, from the batch state b before
\* the call to the state after it
BatchCallEffect ==
    LET b == m_state.batch
        nb == m_state'.batch
        N == Len(b.files)
        k == b.current_index + 1
    IN  /\ ~b.in_progress => m_state' = m_state /\ ~ret'.result
        /\ b.in_progress /\ ~b.cancel_requested /\ b.current_index < N =>
              /\ nb.current_index = k
              /\ nb.in_progress
              /\ nb.files[k].status \in TerminalStatuses
              /\ nb.files[k].runs = b.files[k].runs + 1
              /\ \A j \in 1 .. N : j # k => nb.files[j] = b.files[j]
        /\ b.in_progress /\ ~b.cancel_requested /\ b.current_index >= N =>
              /\ ~nb.in_progress
              /\ is_complete(nb)
              /\ nb.files = b.files
              /\ nb.current_index = b.current_index
        /\ ret'.result <=> (nb.in_progress /\ nb.current_index < Len(nb.files))

\* each file before current_index has been processed once and has a terminal
\* status, no file from current_index on has been processed
ProcessedOnceInOrder ==
    LET b == m_state.batch IN
    \A k \in 1 .. Len(b.files) :
        IF k <= b.current_index
        THEN b.files[k].runs = 1 /\ b.files[k].status \in TerminalStatuses
        ELSE b.files[k].runs = 0

\* C23: a started run that is ticked once per frame and not cancelled
\* terminates: each call of process_batch_next processes the next file of the
\* queue, once, and gives it a terminal status; the call after the last file
\* clears in_progress so that is_complete() holds; the call returns true
\* exactly while files remain, and changes nothing when no run is in progress.
C23_BatchTerminates ==
    /\ []ProcessedOnceInOrder
    /\ [][ret'.op = "process_batch_next" => BatchCallEffect]_vars
    /\ (m_state.batch.in_progress ~> is_complete(m_state.batch))

\* the call after the second of two files has ended the run
C23_Witness ==
    /\ ret.op = "process_batch_next"
    /\ ~ret.result
    /\ Len(m_state.batch.files) = 2
    /\ is_complete(m_state.batch)
    /\ \A k \in 1 .. 2 : m_state.batch.files[k].runs = 1


\* what a call of process_batch_next does once a cancel has been requested
\* during a run
CancelledCallEffect ==
    LET b == m_state.batch
        nb == m_state'.batch
    IN  b.in_progress /\ b.cancel_requested =>
           /\ m_state' = [m_state EXCEPT !.batch.in_progress = FALSE]
           /\ ~ret'.result
           /\ is_complete(nb) <=> b.current_index >= Len(b.files)

\* no file from current_index on has been processed or written
RestUntouched ==
    LET b == m_state.batch IN
    \A k \in 1 .. Len(b.files) :
        k > b.current_index =>
            /\ b.files[k].status = "Pending"
            /\ b.files[k].runs = 0
            /\ b.files[k].wrote = 0

\* C24: cancel_batch only raises cancel_requested; the next call of
\* process_batch_next in that run processes no file, clears in_progress and
\* returns false with current_index, the counters and the files unchanged;
\* the files from current_index on stay Pending and unwritten; the run is
\* complete only if every file had been done; a later
\* start_batch_processing clears the request and restarts at index 0.
C24_BatchCancel ==
    /\ []RestUntouched
    /\ [][ret'.op = "cancel_batch" =>
            m_state' = [m_state EXCEPT !.batch.cancel_requested = TRUE]]_vars
    /\ [][ret'.op = "process_batch_next" => CancelledCallEffect]_vars
    /\ [][ret'.op = "start_batch_processing" /\ is_batch_mode(m_state.batch) =>
            /\ ~m_state'.batch.cancel_requested
            /\ m_state'.batch.in_progress
            /\ m_state'.batch.current_index = 0]_vars

\* a run over two files was cancelled after the first file
C24_Witness ==
    /\ ret.op = "process_batch_next"
    /\ ~ret.result
    /\ m_state.batch.cancel_requested
    /\ ~m_state.batch.in_progress
    /\ Len(m_state.batch.files) = 2
    /\ m_state.batch.current_index = 1
    /\ m_state.batch.files[1].wrote = 1
    /\ ~is_complete(m_state.batch)


\* C30: right after a call of init, is_initialized() is true if and only if
\* the call returned true; a set_language made while not initialised returns
\* false.
C30_InitFlagAgrees ==
    /\ ret.kind = "init" => (i18n_state.initialized <=> ret.result)
    /\ ret.kind = "set_language" /\ ~ret.was_initialized => ~ret.result


\* the custom-watermark state as CustomWatermarkState::clear leaves it
CustomIsCleared(st) ==
    ~st.has_region /\ st.region = NoRegion /\ ~st.detection_attempted

\* force_size and size_mode agree
SizeOptionsAgree(st) ==
    /\ st.force_size = "Small" <=> st.size_mode = "Small"
    /\ st.force_size = "Large" <=> st.size_mode = "Large"
    /\ st.force_size = "None" <=> st.size_mode \in {"Auto", "Custom"}

\* C27: after any sequence of set_force_size, set_size_mode,
\* enter_batch_mode, load_image and close_image (and the other session
\* operations), force_size is Small iff size_mode is Small, Large iff
\* size_mode is Large and empty iff size_mode is Auto or Custom; a
\* set_force_size or set_size_mode that leaves the mode Auto, Small or Large
\* leaves the custom-watermark state cleared; entering batch mode with a
\* non-empty queue leaves size_mode Auto.
C27_SizeOptionsConsistent ==
    /\ []SizeOptionsAgree(m_state)
    /\ [][ret'.op \in {"set_force_size", "set_size_mode"}
          /\ m_state'.size_mode \in {"Auto", "Small", "Large"}
          => CustomIsCleared(m_state')]_vars
    /\ [][ret'.op = "enter_batch_mode" /\ is_batch_mode(m_state'.batch)
          => m_state'.size_mode = "Auto" /\ m_state'.force_size = "None"
             /\ CustomIsCleared(m_state')]_vars

\* set_force_size(Large) on a loaded image
C27_Witness ==
    /\ ret.op = "set_force_size"
    /\ has_image(m_state)
    /\ m_state.force_size = "Large"
    /\ m_state.size_mode = "Large"


\* C29: a load_image that cannot read the file returns false and changes
\* only the state, to Error: the original, processed and display images, the
\* preview flag, the custom region, the options and the batch queue stay as
\* they were.
C29_FailedLoadKeepsSession ==
    [][ret'.op = "load_image" /\ ~ret'.result
       => m_state' = [m_state EXCEPT !.state = "Error"]]_vars

\* a failed load over a session that holds a processed image
C29_Witness ==
    /\ ret.op = "load_image"
    /\ ~ret.result
    /\ m_state.state = "Error"
    /\ has_processed(m_state)
    /\ m_state.display = m_state.processed
    /\ m_state.size_mode = "Custom"
    /\ m_state.has_region


\* the processed image is what process_current computes from the original
\* now loaded, under some setting of the size options
ProcessedFromOriginal(st) ==
    \E u \in UndefinedPixels, mode \in SizeModes, custom \in BOOLEAN,
       region \in GuiRegions(st.original) :
        LET opts == [st EXCEPT
                       !.size_mode = mode,
                       !.force_size = IF mode \in {"Small", "Large"} THEN mode
                                      ELSE "None",
                       !.has_region = custom, !.region = region]
            out == ProcessCurrentCall(opts, st.original, u)
        IN  ~out.threw /\ st.processed = out.image

ProcessStateConsistent(st) ==
    /\ st.state # "Processing"
    /\ st.state = "Idle" => ~has_image(st)
    /\ st.state \in {"Loaded", "Completed"} => has_image(st)
    /\ st.state = "Completed" => has_processed(st) /\ ProcessedFromOriginal(st)

\* C28: between controller operations the state is never Processing; Idle
\* implies that no image is loaded; Loaded and Completed imply that one is;
\* Completed implies a processed image computed from the original now
\* loaded; a load_image that succeeds leaves state Loaded and no processed
\* image.
C28_ProcessStateInvariant ==
    /\ []ProcessStateConsistent(m_state)
    /\ [][ret'.op = "load_image" /\ ret'.result
          => /\ m_state'.state = "Loaded"
             /\ has_image(m_state')
             /\ ~has_processed(m_state')]_vars

\* the preview of a completed 2000x2000 session switched back to the original
C28_Witness ==
    /\ ret.op = "revert_to_original"
    /\ m_state.state = "Completed"
    /\ m_state.original.cols = 2000
    /\ has_processed(m_state)
    /\ m_state.display = m_state.original

\* C26: no event of the window starts a batch run while a run is in
\* progress, and none gets process_current to process the loaded image
\* unless the state is Loaded or Completed.
C26_ProcessGuarded ==
    ret.kind = "ui" =>
        /\ ret.call = "start_batch_processing" => ~ret.was_in_progress
        /\ ret.call = "process_current" /\ ret.had_image =>
              ret.state_before \in {"Loaded", "Completed"}

====
